---- MODULE Spec2Model ----
(***************************************************************************)
(* License validation / activation / revocation state machine of the       *)
(* CoreBridge license manager (src/src/index.js).                          *)
(*                                                                         *)
(* The store holds License rows and LicenseActivation rows.  Every HTTP    *)
(* handler is an async function: each `await` on a Sequelize call is one   *)
(* atomic storage step, and handlers of different requests interleave      *)
(* freely between their awaits (no transaction is opened anywhere).        *)
(***************************************************************************)
EXTENDS Integers, Sequences, FiniteSets, TLC

\* ----------------------------------------------------------------- bounds
\* Total number of requests (validate or revoke) issued in one behaviour.
MaxRequests == 3
\* The clock runs over 0..MaxTime.
MaxTime == 2
\* A finite-term license is issued at time 0 and expires at ShortValidity.
ShortValidity == 1
\* Largest maxActivations a generated license carries.
MaxMaxActivations == 2
\* With the scan running, the clock runs over 0..ScanHorizon and at most
\* ScanRequests requests are issued.
ScanHorizon == 11
ScanRequests == 2
\* With licenses being generated, the store starts empty and comes to hold at
\* most MaxGenerated licenses; the clock runs over MaxYears years, and within
\* a year it advances by at most MaxDrift single readings.
MaxGenerated == 2
MaxYears == 1
MaxDrift == 1
\* Where the warning flags are observed the clock runs over 0..DaysHorizon.
DaysHorizon == 9
\* With two licenses in the store at most TwoRequests requests are issued.
TwoRequests == 2
\* The number of concurrent requests on one license where its counters are
\* observed.
RaceRequests == 2

\* -------------------------------------------------------- program values
\* expiresAt of a perpetual license: the far-future sentinel date.
PerpetualExpiresAt == 250000
\* A DATE column that was never set.
NullTime == 0 - 1
\* Clock readings per day: where days matter one unit of the clock is three
\* hours, and reading 0 is midnight.
DayUnits == 8
\* A response without daysRemaining.
NoDays == NullTime
\* req.body.machineId absent.
NoMachine == "none"
\* A required request field that is absent.
Missing == ""
\* findOne / findByPk returned null.
NoLicenseId == "null"
\* metadata without a revocationReason key.
NoReason == "none"

Machines == {"A", "B"}

\* The request bodies a client sends to validate: <<licenseKey, pluginId,
\* machineId>>.  K1/p1 is the stored license; KX is an unknown key, p2 another
\* plugin.
ValidateInputs ==
    {<<"K1", "p1", "A">>, <<"K1", "p1", "B">>, <<"K1", "p1", NoMachine>>,
     <<"K1", "p2", "A">>, <<"KX", "p1", "A">>,
     <<Missing, "p1", "A">>, <<"K1", Missing, "A">>}

\* The requests a client sends to revoke: <<licenseId, reason>>.  LX is the
\* id of no stored license.
RevokeInputs == {<<"L1", "r1">>, <<"L1", "r2">>, <<"LX", "r1">>}

VARIABLES
    now,          \* the wall clock (new Date(), moment())
    licenses,     \* License table: licenseId -> row
    activations,  \* LicenseActivation table: sequence of rows, id = index
    reqs,         \* the requests issued so far, in order of arrival
    revokeDone,   \* history: licenses for which a revoke call has completed
                  \* (a request records in afterRevoke / afterExpire whether
                  \* it arrived after such a call / after an expiry write)
    expireWrites, \* history: licenseId -> number of validate writes that
                  \* changed the stored status to expired
    scan          \* checkExpiringLicenses: the position of the run in flight
                  \* in its loop over the thresholds, and the events logged
                  \* by the latest run

vars == <<now, licenses, activations, reqs, revokeDone, expireWrites, scan>>

\* No run of checkExpiringLicenses is in flight and none has logged anything.
ScanIdle == [pc |-> 0, log |-> {}]

\* ------------------------------------------------------------ the store
\* A License row as License.create leaves it: the model's defaults.
NewLicense(id, key, plugin, expiresAt, maxAct) ==
    [id |-> id, licenseKey |-> key, pluginId |-> plugin,
     licenseType |-> IF expiresAt = PerpetualExpiresAt
                       THEN "perpetual" ELSE "1-year",
     status |-> "active", issuedAt |-> 0, expiresAt |-> expiresAt,
     activatedAt |-> NullTime, activatedBy |-> NoMachine,
     activationCount |-> 0, maxActivations |-> maxAct,
     metadata |-> [revocationReason |-> NoReason, revokedAt |-> NullTime]]

\* What findOne / findByPk hands back when no row matches.
NullLicense == NewLicense(NoLicenseId, Missing, Missing, 0, 0)

\* A LicenseActivation row created with the status inactive:
\* status: { defaultValue: 'inactive' }.
NewActivation_Inactive(lid, machine, t) ==
    [licenseId |-> lid, machineId |-> machine, status |-> "inactive",
     activatedAt |-> t, lastSeenAt |-> t]

\* A LicenseActivation row as LicenseActivation.create leaves it.
NewActivation(lid, machine, t) ==
    [licenseId |-> lid, machineId |-> machine, status |-> "active",
     activatedAt |-> t, lastSeenAt |-> t]

ActivationIds == 1..Len(activations)

\* The ids of the rows of `acts` owned by license lid with status=active.
ActiveIds(acts, lid) ==
    {a \in 1..Len(acts) : acts[a].licenseId = lid /\ acts[a].status = "active"}

\* A lookup by the key alone: where: { licenseKey }.
FindLicense_KeyOnly(key, plugin) ==
    LET hits == {l \in DOMAIN licenses : licenses[l].licenseKey = key}
    IN  IF hits = {} THEN NoLicenseId ELSE CHOOSE l \in hits : TRUE

\* License.findOne({where: {licenseKey, pluginId}}): the id, or NoLicenseId.
FindLicense(key, plugin) ==
    LET hits == {l \in DOMAIN licenses :
                    licenses[l].licenseKey = key /\ licenses[l].pluginId = plugin}
    IN  IF hits = {} THEN NoLicenseId ELSE CHOOSE l \in hits : TRUE

\* include: [{model: LicenseActivation, as: 'activations'}]: the ids of the
\* license's activation rows, with the status each had when it was read.
IncludedActivations(lid) ==
    {<<a, activations[a].status>> : a \in {x \in ActivationIds :
                                              activations[x].licenseId = lid}}

\* ------------------------------------------------------------- requests
\* A response without warningThresholds.
NoWarnings ==
    [show90DayWarning |-> FALSE, show60DayWarning |-> FALSE,
     show45DayWarning |-> FALSE, show30DayWarning |-> FALSE,
     show15DayWarning |-> FALSE, showDailyWarning |-> FALSE]

Response(code, valid, message, count) ==
    [code |-> code, valid |-> valid, message |-> message,
     activationCount |-> count, daysRemaining |-> NoDays,
     warningThresholds |-> NoWarnings]

NoResponse == Response(0, FALSE, "", 0)

\* 'License is ' + license.status
StatusMessage(status) ==
    CASE status = "expired"   -> "License is expired"
      [] status = "revoked"   -> "License is revoked"
      [] status = "suspended" -> "License is suspended"
      [] OTHER                -> "License is active"

Request(kind, pc, key, plugin, machine, lid, reason, lic, acts, resp) ==
    [kind |-> kind, pc |-> pc, licenseKey |-> key, pluginId |-> plugin,
     machineId |-> machine, licenseId |-> lid, reason |-> reason,
     license |-> lic, activations |-> acts, existing |-> 0,
     daysRemaining |-> NoDays,
     storageFailed |-> FALSE,
     afterRevoke |-> lid \in revokeDone,
     afterExpire |-> IF lid \in DOMAIN expireWrites
                       THEN expireWrites[lid] > 0 ELSE FALSE,
     response |-> resp]

\* The handler answers and returns: its locals (the license instance and the
\* activations it read) are gone, the response stays.
Finish(i, resp) ==
    reqs' = [reqs EXCEPT ![i].pc = "done", ![i].response = resp,
                         ![i].license = NullLicense, ![i].activations = {},
                         ![i].existing = 0, ![i].daysRemaining = NoDays]

Goto(i, pc) ==
    reqs' = [reqs EXCEPT ![i].pc = pc]

InFlight(i) == reqs[i].pc # "done"

\* ------------------------------------------------------------- the clock
Tick ==
    /\ now < MaxTime
    /\ now' = now + 1
    /\ UNCHANGED <<licenses, activations, reqs, revokeDone, expireWrites, scan>>

\* The wall clock is set back (a clock correction on the host).
ClockBack ==
    /\ now > 0
    /\ now' = now - 1
    /\ UNCHANGED <<licenses, activations, reqs, revokeDone, expireWrites, scan>>

\* An administrator sets the status column of an active license to
\* 'suspended' in the database; no route of the program does it.
ExternalSuspend(l) ==
    /\ l \in DOMAIN licenses
    /\ licenses[l].status = "active"
    /\ licenses' = [licenses EXCEPT ![l].status = "suspended"]
    /\ UNCHANGED <<now, activations, reqs, revokeDone, expireWrites, scan>>

\* ------------------------------------------------- POST /api/licenses/validate
\* license.expiresAt < new Date()
IsExpired(lic, t) == lic.expiresAt < t

\* license.activations.filter(a => a.status === 'active').length, taken
\* from the rows the handler read together with the license.
ActiveInSnapshot(r) ==
    Cardinality({p \in r.activations : p[2] = "active"})

\* The cap check off by one: activeActivations > license.maxActivations.
CapReached_OffByOne(r) == ActiveInSnapshot(r) > r.license.maxActivations

\* activeActivations >= license.maxActivations
CapReached(r) == ActiveInSnapshot(r) >= r.license.maxActivations

\* The increment done by the store on the row as it is then:
\* license.increment('activationCount').
CountAfterActivation_Stored(r) == licenses[r.licenseId].activationCount + 1

\* activationCount: license.activationCount + 1, from the license instance
\* the handler holds.
CountAfterActivation(r) == r.license.activationCount + 1

\* The difference rounded to the nearest whole day.
DaysRemaining_Rounded(expiresAt, t) ==
    (expiresAt - t + DayUnits \div 2) \div DayUnits

\* moment(license.expiresAt).diff(moment(), 'days'): the difference in days
\* with its fraction cut off, towards zero.
DaysRemaining(expiresAt, t) ==
    LET d == expiresAt - t
    IN  IF d >= 0 THEN d \div DayUnits ELSE 0 - ((0 - d) \div DayUnits)

\* warningThresholds: { show90DayWarning: daysRemaining <= 90, ... }
WarningThresholds(days) ==
    [show90DayWarning |-> days <= 90, show60DayWarning |-> days <= 60,
     show45DayWarning |-> days <= 45, show30DayWarning |-> days <= 30,
     show15DayWarning |-> days <= 15, showDailyWarning |-> days <= 7]

\* The valid verdict: res.json({valid: true, ..., daysRemaining,
\* activationCount, warningThresholds}).
ValidResponse(count, days) ==
    [Response(200, TRUE, "valid", count) EXCEPT
        !.daysRemaining = days, !.warningThresholds = WarningThresholds(days)]

\* A status check for the one status revoked: license.status === 'revoked'
NotActive_RevokedOnly(lic) == lic.status = "revoked"

\* A status check that looks for the withdrawn statuses only and lets a
\* license marked expired through.
NotActive_Withdrawn(lic) == lic.status \in {"revoked", "suspended"}

\* license.status !== 'active'
NotActive(lic) == lic.status # "active"

\* The activation branch taken also without a machineId.
HasMachine_Always(machine) == TRUE

\* if (machineId)
HasMachine(machine) == machine # NoMachine

\* The input check that forgets the plugin id: !licenseKey.
BadInput_KeyOnly(key, plugin) == key = Missing

\* !licenseKey || !pluginId
BadInput(key, plugin) == key = Missing \/ plugin = Missing

\* The handler from its entry up to its first storage write: the input
\* check, License.findOne with its activations, the expiry test, the status
\* test and the machineId test.
ValidateBegin(key, plugin, machine) ==
    /\ Len(reqs) < MaxRequests
    /\ LET bad  == BadInput(key, plugin)
           lid  == IF bad THEN NoLicenseId ELSE FindLicense(key, plugin)
           lic  == IF lid = NoLicenseId THEN NullLicense ELSE licenses[lid]
           acts == IF lid = NoLicenseId THEN {} ELSE IncludedActivations(lid)
           days == DaysRemaining(lic.expiresAt, now)
           mk(pc, resp) ==
               [Request("validate", pc, key, plugin, machine, lid, NoReason,
                        IF pc = "done" THEN NullLicense ELSE lic,
                        IF pc = "done" THEN {} ELSE acts, resp)
                  EXCEPT !.daysRemaining =
                            IF pc = "findExisting" THEN days ELSE NoDays]
       IN  reqs' = Append(reqs,
             IF bad
               THEN mk("done", Response(400, FALSE,
                            "License key and plugin ID are required", 0))
             ELSE IF lid = NoLicenseId
               THEN mk("done", Response(200, FALSE, "License not found", 0))
             ELSE IF IsExpired(lic, now)
               THEN mk("expire", NoResponse)
             ELSE IF NotActive(lic)
               THEN mk("done", Response(200, FALSE, StatusMessage(lic.status), 0))
             ELSE IF ~HasMachine(machine)
               THEN mk("done", ValidResponse(lic.activationCount, days))
             ELSE mk("findExisting", NoResponse))
    /\ UNCHANGED <<now, licenses, activations, revokeDone, expireWrites, scan>>

\* The expiry write that also gives the license's activations up:
\* license.update({ status: 'expired', activationCount: 0 })
MarkedExpired_Released(lic) ==
    [lic EXCEPT !.status = "expired", !.activationCount = 0]

\* license.update({ status: 'expired' })
MarkedExpired(lic) == [lic EXCEPT !.status = "expired"]

\* await license.update({ status: 'expired' }), then the invalid verdict.
ValidateExpire(i) ==
    /\ reqs[i].pc = "expire"
    /\ LET lid == reqs[i].licenseId
       IN  /\ licenses' = [licenses EXCEPT ![lid] = MarkedExpired(@)]
           /\ expireWrites' =
                [expireWrites EXCEPT ![lid] =
                    IF licenses[lid].status # "expired" THEN @ + 1 ELSE @]
    /\ Finish(i, Response(200, FALSE, "License has expired", 0))
    /\ UNCHANGED <<now, activations, revokeDone, scan>>

\* await LicenseActivation.findOne({licenseId, machineId, status: 'active'}),
\* then the cap check on the activations read with the license.
ValidateFindExisting(i) ==
    /\ reqs[i].pc = "findExisting"
    /\ LET r    == reqs[i]
           hits == {a \in ActiveIds(activations, r.licenseId) :
                        activations[a].machineId = r.machineId}
       IN  IF hits # {}
             THEN \E a \in hits :
                    reqs' = [reqs EXCEPT ![i].pc = "touch", ![i].existing = a]
           ELSE IF CapReached(r)
             THEN Finish(i, Response(200, FALSE,
                              "Maximum number of activations reached", 0))
           ELSE Goto(i, "create")
    /\ UNCHANGED <<now, licenses, activations, revokeDone, expireWrites, scan>>

\* await LicenseActivation.create({licenseId, machineId, ...})
ValidateCreate(i) ==
    /\ reqs[i].pc = "create"
    /\ activations' = Append(activations,
                         NewActivation(reqs[i].licenseId, reqs[i].machineId, now))
    /\ Goto(i, "updateCount")
    /\ UNCHANGED <<now, licenses, revokeDone, expireWrites, scan>>

\* await license.update({activationCount, activatedAt, activatedBy}), then
\* the valid verdict.
ValidateUpdateCount(i) ==
    /\ reqs[i].pc = "updateCount"
    /\ LET r == reqs[i]
       IN  /\ licenses' = [licenses EXCEPT
                  ![r.licenseId].activationCount = CountAfterActivation(r),
                  ![r.licenseId].activatedAt = now,
                  ![r.licenseId].activatedBy = r.machineId]
           /\ Finish(i, ValidResponse(CountAfterActivation(r), r.daysRemaining))
    /\ UNCHANGED <<now, activations, revokeDone, expireWrites, scan>>

\* The update that also restarts the Activation:
\* existingActivation.update({ activatedAt: new Date(), lastSeenAt: new Date() })
Touched_Reactivated(acts, a, t) ==
    [acts EXCEPT ![a].lastSeenAt = t, ![a].activatedAt = t]

\* existingActivation.update({ lastSeenAt: new Date() })
Touched(acts, a, t) == [acts EXCEPT ![a].lastSeenAt = t]

\* await existingActivation.update({ lastSeenAt: new Date() }), then the
\* valid verdict.
ValidateTouch(i) ==
    /\ reqs[i].pc = "touch"
    /\ activations' = Touched(activations, reqs[i].existing, now)
    /\ Finish(i, ValidResponse(reqs[i].license.activationCount,
                               reqs[i].daysRemaining))
    /\ UNCHANGED <<now, licenses, revokeDone, expireWrites, scan>>

\* An internal failure reported like the negative verdict "not found".
InternalError_AsNotFound == Response(200, FALSE, "License not found", 0)

\* catch (error): res.status(500).json({valid: false,
\*                                      message: 'Internal server error'})
InternalError == Response(500, FALSE, "Internal server error", 0)

\* License.findOne rejects (the storage is unreachable): the handler of a
\* call that passed the input check ends in its catch block.
ValidateLookupFails(key, plugin, machine) ==
    /\ Len(reqs) < MaxRequests
    /\ ~BadInput(key, plugin)
    /\ reqs' = Append(reqs,
                  [Request("validate", "done", key, plugin, machine,
                           NoLicenseId, NoReason, NullLicense, {}, InternalError)
                     EXCEPT !.storageFailed = TRUE])
    /\ UNCHANGED <<now, licenses, activations, revokeDone, expireWrites, scan>>

\* The storage call a validate handler is waiting for rejects -- the update
\* to expired, the lookup of the machine's Activation, the insert of the
\* Activation, the update of activationCount or the update of lastSeenAt --
\* and writes nothing: the handler ends in its catch block.
ValidateStorageFails(i) ==
    /\ reqs[i].kind = "validate"
    /\ reqs[i].pc \in {"expire", "findExisting", "create", "updateCount", "touch"}
    /\ reqs' = [reqs EXCEPT ![i].pc = "done", ![i].response = InternalError,
                            ![i].license = NullLicense, ![i].activations = {},
                            ![i].existing = 0, ![i].daysRemaining = NoDays,
                            ![i].storageFailed = TRUE]
    /\ UNCHANGED <<now, licenses, activations, revokeDone, expireWrites, scan>>

\* ----------------------------------------- POST /api/licenses/:licenseId/revoke
\* The spread written last, so that the keys already stored win:
\* { revocationReason: reason, revokedAt: new Date(), ...license.metadata }
RevokedMetadata_StoredWins(lic, reason, t) ==
    IF lic.metadata.revocationReason # NoReason
      THEN lic.metadata
      ELSE [lic.metadata EXCEPT !.revocationReason = reason, !.revokedAt = t]

\* { ...license.metadata, revocationReason: reason, revokedAt: new Date() }
RevokedMetadata(lic, reason, t) ==
    [lic.metadata EXCEPT !.revocationReason = reason, !.revokedAt = t]

\* The update without the license in its where clause:
\* LicenseActivation.update({status: 'revoked'}, {where: {status: 'active'}})
RevokeActivations_All(acts, lid) ==
    [a \in 1..Len(acts) |->
        IF acts[a].status = "active"
          THEN [acts[a] EXCEPT !.status = "revoked"]
          ELSE acts[a]]

\* The rows deleted instead of updated:
\* LicenseActivation.destroy({where: {licenseId, status: 'active'}})
RevokeActivations_Destroy(acts, lid) ==
    SelectSeq(acts, LAMBDA a : ~(a.licenseId = lid /\ a.status = "active"))

\* LicenseActivation.update({status: 'revoked'},
\*                          {where: {licenseId, status: 'active'}})
RevokeActivations(acts, lid) ==
    [a \in 1..Len(acts) |->
        IF acts[a].licenseId = lid /\ acts[a].status = "active"
          THEN [acts[a] EXCEPT !.status = "revoked"]
          ELSE acts[a]]

\* A lookup that ignores the id: License.findOne() hands back some row.
FindByPk_AnyRow(lid) ==
    IF licenses = <<>> THEN NoLicenseId ELSE CHOOSE l \in DOMAIN licenses : TRUE

\* License.findByPk(licenseId): the id, or NoLicenseId when no row has it.
FindByPk(lid) == IF lid \in DOMAIN licenses THEN lid ELSE NoLicenseId

\* License.findByPk(licenseId) and the 404 answer.
RevokeBegin(lid, reason) ==
    /\ Len(reqs) < MaxRequests
    /\ LET pk    == FindByPk(lid)
           found == pk # NoLicenseId
           lic   == IF found THEN licenses[pk] ELSE NullLicense
           mk(pc, resp) == Request("revoke", pc, Missing, Missing, NoMachine,
                                   lid, reason, lic, {}, resp)
       IN  reqs' = Append(reqs,
             IF found THEN mk("updateLicense", NoResponse)
                      ELSE mk("done", Response(404, FALSE, "License not found", 0)))
    /\ UNCHANGED <<now, licenses, activations, revokeDone, expireWrites, scan>>

\* await license.update({ status: 'revoked', metadata: {...} })
RevokeUpdateLicense(i) ==
    /\ reqs[i].pc = "updateLicense"
    /\ LET r == reqs[i]
       IN  licenses' = [licenses EXCEPT
              ![r.license.id].status = "revoked",
              ![r.license.id].metadata = RevokedMetadata(r.license, r.reason, now)]
    /\ Goto(i, "updateActivations")
    /\ UNCHANGED <<now, activations, revokeDone, expireWrites, scan>>

\* await LicenseActivation.update(...), then the success answer.
RevokeUpdateActivations(i) ==
    /\ reqs[i].pc = "updateActivations"
    /\ activations' = RevokeActivations(activations, reqs[i].licenseId)
    /\ revokeDone' = revokeDone \cup {reqs[i].licenseId}
    /\ Finish(i, Response(200, TRUE, "License revoked successfully", 0))
    /\ UNCHANGED <<now, licenses, expireWrites, scan>>

\* ---------------------------------------------------- checkExpiringLicenses
\* 09:00, the time of day of cron.schedule('0 9 * * *', ...).
CronUnit == 3

\* A duration of h hours on the clock.
Hours(h) == (h * DayUnits) \div 24

\* const thresholds = [90, 60, 45, 30, 15, 7, 3, 1]
Thresholds == <<90, 60, 45, 30, 15, 7, 3, 1>>

TimeOfDay(t) == t % DayUnits

\* The cron expression matches the reading t.
CronDue(t) == TimeOfDay(t) = CronUnit

\* moment(t).startOf('day')
StartOfDay(t) == t - TimeOfDay(t)

\* moment(t).endOf('day'), 23:59:59.999: no reading of the day lies after it,
\* so for the comparison with a reading it is the day's last reading.
EndOfDay(t) == StartOfDay(t) + (DayUnits - 1)

\* The window from now on: [moment(), moment().add(days).endOf('day')].
DayWindow_FromNow(days, t) == <<t, EndOfDay(t + days * DayUnits)>>

\* [moment().add(days, 'days').startOf('day'),
\*  moment().add(days, 'days').endOf('day')]
DayWindow(days, t) ==
    <<StartOfDay(t + days * DayUnits), EndOfDay(t + days * DayUnits)>>

\* A comparison that leaves the two ends out.
Between_Exclusive(x, lo, hi) == lo < x /\ x < hi

\* [Sequelize.Op.between]: [lo, hi], SQL BETWEEN, both ends included.
Between(x, lo, hi) == lo <= x /\ x <= hi

\* License.findAll({where: {status: 'active', expiresAt: {between}}})
ExpiringLicenses(days, t) ==
    {l \in DOMAIN licenses :
        /\ licenses[l].status = "active"
        /\ Between(licenses[l].expiresAt,
                   DayWindow(days, t)[1], DayWindow(days, t)[2])}

\* A loop body that also marks the licenses it reports as expired.
AfterLogging_MarksExpired(lics, found) ==
    [l \in DOMAIN lics |->
        IF l \in found THEN [lics[l] EXCEPT !.status = "expired"] ELSE lics[l]]

\* The License table after the loop over expiringLicenses: the body calls
\* logger.info with fields of the row and nothing else.
AfterLogging(lics, found) == lics

\* One iteration of the loop over the thresholds: the window is computed
\* from the clock, findAll reads the store, and one event per license found
\* is logged.  The first iteration runs when the cron schedule fires; after
\* the last one the run is over.
ScanStep ==
    /\ scan.pc = 0 => CronDue(now)
    /\ LET k     == scan.pc + 1
           days  == Thresholds[k]
           found == ExpiringLicenses(days, now)
           log   == IF scan.pc = 0 THEN {} ELSE scan.log
       IN  /\ scan' = [pc  |-> IF k = Len(Thresholds) THEN 0 ELSE k,
                       log |-> log \cup {<<l, days>> : l \in found}]
           /\ licenses' = AfterLogging(licenses, found)
    /\ UNCHANGED <<now, activations, reqs, revokeDone, expireWrites>>

\* ------------------------------------------------- POST /api/licenses/generate
\* CONFIG.LICENSE_VALIDITY_DAYS
ValidityDays == ("1-year" :> 365) @@ ("3-year" :> 1095) @@ ("5-year" :> 1825)

\* The request bodies a client sends to generate: <<pluginId, customerEmail,
\* licenseType>>; they carry a customerName, and maxActivations is left to
\* its default.
GenerateInputs ==
    {<<"p1", "e1", "1-year">>, <<"p1", "e1", "3-year">>, <<"p1", "e1", "5-year">>,
     <<"p1", "e1", "perpetual">>, <<"p1", "e1", "weekly">>,
     <<Missing, "e1", "1-year">>}

\* The values generateLicenseKey returns, in order: a hash over the plugin,
\* the e-mail address, Date.now() and a random string, new at every call.
GenKeys == <<"K1", "K2", "K3", "K4">>

\* generateLicenseKey(pluginId, customerEmail)
GenerateLicenseKey == GenKeys[Cardinality(DOMAIN licenses) + 1]

\* The primary keys DataTypes.UUIDV4 hands out, in order.
GenIds == <<"L1", "L2", "L3", "L4">>

\* An expiry without the sentinel: a perpetual license expires as it is issued.
ExpiresAtFor_NoSentinel(type, t) ==
    IF type = "perpetual" THEN t ELSE t + ValidityDays[type] * DayUnits

\* new Date('2099-12-31') for perpetual, else
\* moment().add(CONFIG.LICENSE_VALIDITY_DAYS[licenseType], 'days')
ExpiresAtFor(type, t) ==
    IF type = "perpetual" THEN PerpetualExpiresAt
                          ELSE t + ValidityDays[type] * DayUnits

\* const { ..., maxActivations = 1 } = req.body: the value of a request that
\* carries none.
DefaultMaxActivations == 1

\* DataTypes.ENUM('1-year', '3-year', '5-year', 'perpetual'): the values the
\* license_type column takes.
LicenseTypes == {"1-year", "3-year", "5-year", "perpetual"}

\* A name that every object inherits from Object.prototype: looked up in
\* CONFIG.LICENSE_VALIDITY_DAYS it yields a function, which is not falsy.
InheritedKeys == {"constructor"}

\* const days = CONFIG.LICENSE_VALIDITY_DAYS[licenseType]; the test !days
\* fails.
HasDays(type) == type \in DOMAIN ValidityDays \cup InheritedKeys

\* The check of the required fields without the customer's name:
\* !pluginId || !customerEmail || !licenseType
MissingFields_NoName(plugin, name, email, type) ==
    plugin = Missing \/ email = Missing \/ type = Missing

\* !pluginId || !customerName || !customerEmail || !licenseType
MissingFields(plugin, name, email, type) ==
    plugin = Missing \/ name = Missing \/ email = Missing \/ type = Missing

\* The handler up to License.create: the required fields, the license key
\* that generateLicenseKey returned, the license type and the expiry computed
\* from the clock; maxActivations is taken from the request as it is.
GenerateBegin(plugin, name, email, type, maxAct, key) ==
    /\ Len(reqs) < MaxRequests
    /\ LET row == [NewLicense(NoLicenseId, key, plugin,
                              IF type \in DOMAIN ValidityDays \cup {"perpetual"}
                                THEN ExpiresAtFor(type, now) ELSE 0, maxAct)
                     EXCEPT !.licenseType = type, !.issuedAt = NullTime]
           mk(pc, resp) == Request("generate", pc, key, plugin, NoMachine,
                                   NoLicenseId, NoReason,
                                   IF pc = "done" THEN NullLicense ELSE row,
                                   {}, resp)
       IN  reqs' = Append(reqs,
             IF MissingFields(plugin, name, email, type)
               THEN mk("done", Response(400, FALSE, "Missing required fields", 0))
             ELSE IF type # "perpetual" /\ ~HasDays(type)
               THEN mk("done", Response(400, FALSE, "Invalid license type", 0))
             ELSE mk("insert", NoResponse))
    /\ UNCHANGED <<now, licenses, activations, revokeDone, expireWrites, scan>>

\* await License.create({...}): the row is built with a fresh id and with
\* issuedAt read from the clock (defaultValue: DataTypes.NOW), and inserted;
\* a licenseKey already stored breaks the unique constraint, a licenseType
\* that is no value of the column's ENUM is refused by the database, and the
\* handler answers 500.
GenerateCreate(i) ==
    /\ reqs[i].pc = "insert"
    /\ LET r   == reqs[i]
           id  == GenIds[Cardinality(DOMAIN licenses) + 1]
           row == [r.license EXCEPT !.id = id, !.issuedAt = now]
       IN  IF \/ \E l \in DOMAIN licenses : licenses[l].licenseKey = r.licenseKey
              \/ r.license.licenseType \notin LicenseTypes
             THEN /\ Finish(i, Response(500, FALSE, "Failed to generate license", 0))
                  /\ UNCHANGED <<licenses, expireWrites>>
             ELSE /\ licenses' = licenses @@ (id :> row)
                  /\ expireWrites' = expireWrites @@ (id :> 0)
                  /\ reqs' = [reqs EXCEPT ![i].pc = "done",
                                          ![i].licenseId = id,
                                          ![i].license = NullLicense,
                                          ![i].response =
                                              Response(200, TRUE, "success", 0)]
    /\ UNCHANGED <<now, activations, revokeDone, scan>>

\* -------------------------------------------------------- specifications
\* The store after one license has been generated at time 0, with any of
\* the expiry terms and any activation quota; no request has arrived yet.
Init ==
    /\ now = 0
    /\ \E e \in {ShortValidity, PerpetualExpiresAt}, m \in 1..MaxMaxActivations :
          licenses = [l \in {"L1"} |-> NewLicense(l, "K1", "p1", e, m)]
    /\ activations = <<>>
    /\ reqs = <<>>
    /\ revokeDone = {}
    /\ expireWrites = [l \in {"L1"} |-> 0]
    /\ scan = ScanIdle

\* Requests are handled concurrently: a new one may arrive at any time, and
\* the handlers in flight take their storage steps in any order.
Next ==
    \/ Tick
    \/ \E v \in ValidateInputs : ValidateBegin(v[1], v[2], v[3])
    \/ \E v \in RevokeInputs : RevokeBegin(v[1], v[2])
    \/ \E i \in 1..Len(reqs) : ValidateExpire(i)
    \/ \E i \in 1..Len(reqs) : ValidateFindExisting(i)
    \/ \E i \in 1..Len(reqs) : ValidateCreate(i)
    \/ \E i \in 1..Len(reqs) : ValidateUpdateCount(i)
    \/ \E i \in 1..Len(reqs) : ValidateTouch(i)
    \/ \E i \in 1..Len(reqs) : RevokeUpdateLicense(i)
    \/ \E i \in 1..Len(reqs) : RevokeUpdateActivations(i)

Spec == Init /\ [][Next]_vars

\* Every request issued so far has been answered.
Quiescent == \A i \in 1..Len(reqs) : ~InFlight(i)

\* Requests are handled one after the other: a client sends the next one
\* only when every earlier one has been answered.
SeqNext ==
    \/ Tick
    \/ Quiescent /\ \E v \in ValidateInputs : ValidateBegin(v[1], v[2], v[3])
    \/ Quiescent /\ \E v \in RevokeInputs : RevokeBegin(v[1], v[2])
    \/ \E i \in 1..Len(reqs) : ValidateExpire(i)
    \/ \E i \in 1..Len(reqs) : ValidateFindExisting(i)
    \/ \E i \in 1..Len(reqs) : ValidateCreate(i)
    \/ \E i \in 1..Len(reqs) : ValidateUpdateCount(i)
    \/ \E i \in 1..Len(reqs) : ValidateTouch(i)
    \/ \E i \in 1..Len(reqs) : RevokeUpdateLicense(i)
    \/ \E i \in 1..Len(reqs) : RevokeUpdateActivations(i)

SeqSpec == Init /\ [][SeqNext]_vars

\* The clock of the specification that runs the scan.  A run of the scan is
\* eight queries: it is over before the clock shows the next reading.
ScanTick ==
    /\ scan.pc = 0
    /\ now < ScanHorizon
    /\ now' = now + 1
    /\ UNCHANGED <<licenses, activations, reqs, revokeDone, expireWrites, scan>>

\* The store when the clock starts: one license with the default quota of one
\* activation.  ScanDays are the days on which it expires, at one of three
\* times of day: midnight, the reading after the scan's, the day's last.
ScanDays == {1, 2, 7, 8, 90}

ScanExpiries ==
    {d * DayUnits + o : d \in ScanDays, o \in {0, CronUnit + 1, DayUnits - 1}}

ScanInit ==
    /\ now = 0
    /\ \E e \in ScanExpiries :
          licenses = [l \in {"L1"} |-> NewLicense(l, "K1", "p1", e, 1)]
    /\ activations = <<>>
    /\ reqs = <<>>
    /\ revokeDone = {}
    /\ expireWrites = [l \in {"L1"} |-> 0]
    /\ scan = ScanIdle

MayArrive == Quiescent /\ Len(reqs) < ScanRequests

\* The scan runs on its schedule beside the request traffic: its queries and
\* the storage steps of the handlers interleave in any order.
ScanNext ==
    \/ ScanTick
    \/ ScanStep
    \/ MayArrive /\ ValidateBegin("K1", "p1", "A")
    \/ MayArrive /\ RevokeBegin("L1", "r1")
    \/ \E i \in 1..Len(reqs) : ValidateExpire(i)
    \/ \E i \in 1..Len(reqs) : ValidateFindExisting(i)
    \/ \E i \in 1..Len(reqs) : ValidateCreate(i)
    \/ \E i \in 1..Len(reqs) : ValidateUpdateCount(i)
    \/ \E i \in 1..Len(reqs) : ValidateTouch(i)
    \/ \E i \in 1..Len(reqs) : RevokeUpdateLicense(i)
    \/ \E i \in 1..Len(reqs) : RevokeUpdateActivations(i)

ScanSpec == ScanInit /\ [][ScanNext]_vars

\* A year of 365 days on the clock.
YearUnits == 365 * DayUnits

\* The clock shows its next reading.
GenTick ==
    /\ now % YearUnits < MaxDrift
    /\ now' = now + 1
    /\ UNCHANGED <<licenses, activations, reqs, revokeDone, expireWrites, scan>>

\* A year passes.
GenYear ==
    /\ now + YearUnits <= MaxYears * YearUnits + MaxDrift
    /\ now' = now + YearUnits
    /\ UNCHANGED <<licenses, activations, reqs, revokeDone, expireWrites, scan>>

\* The store before any license has been generated.
GenInit ==
    /\ now = 0
    /\ licenses = [l \in {} |-> NullLicense]
    /\ activations = <<>>
    /\ reqs = <<>>
    /\ revokeDone = {}
    /\ expireWrites = [l \in {} |-> 0]
    /\ scan = ScanIdle

\* Licenses are generated and then validated, one request after the other,
\* while the clock runs.
GenNext ==
    \/ GenTick
    \/ GenYear
    \/ /\ Quiescent
       /\ Cardinality(DOMAIN licenses) < MaxGenerated
       /\ \E g \in GenerateInputs :
             GenerateBegin(g[1], "n1", g[2], g[3], DefaultMaxActivations,
                           GenerateLicenseKey)
    \/ \E i \in 1..Len(reqs) : GenerateCreate(i)
    \/ Quiescent /\ \E n \in 1..MaxGenerated :
                       ValidateBegin(GenKeys[n], "p1", "A")
    \/ \E i \in 1..Len(reqs) : ValidateExpire(i)
    \/ \E i \in 1..Len(reqs) : ValidateFindExisting(i)
    \/ \E i \in 1..Len(reqs) : ValidateCreate(i)
    \/ \E i \in 1..Len(reqs) : ValidateUpdateCount(i)
    \/ \E i \in 1..Len(reqs) : ValidateTouch(i)

GenSpec == GenInit /\ [][GenNext]_vars

\* The clock of the specification that observes daysRemaining.
DaysTick ==
    /\ now < DaysHorizon
    /\ now' = now + 1
    /\ UNCHANGED <<licenses, activations, reqs, revokeDone, expireWrites, scan>>

\* The days on which the stored license expires: the day of each warning
\* threshold and the day after it, seen from day 0, and day 0 and 1.
WarningDays == {0, 1, 7, 8, 15, 16, 30, 31, 45, 46, 60, 61, 90, 91}

\* One license that expires at midnight or at the last reading of one of
\* these days.
DaysInit ==
    /\ now = 0
    /\ \E d \in WarningDays, o \in {0, DayUnits - 1} :
          licenses = [l \in {"L1"} |->
                         NewLicense(l, "K1", "p1", d * DayUnits + o, 1)]
    /\ activations = <<>>
    /\ reqs = <<>>
    /\ revokeDone = {}
    /\ expireWrites = [l \in {"L1"} |-> 0]
    /\ scan = ScanIdle

\* Validate calls with and without a machine, one after the other, while
\* the clock runs.
DaysNext ==
    \/ DaysTick
    \/ Quiescent /\ \E m \in {"A", NoMachine} : ValidateBegin("K1", "p1", m)
    \/ \E i \in 1..Len(reqs) : ValidateExpire(i)
    \/ \E i \in 1..Len(reqs) : ValidateFindExisting(i)
    \/ \E i \in 1..Len(reqs) : ValidateCreate(i)
    \/ \E i \in 1..Len(reqs) : ValidateUpdateCount(i)
    \/ \E i \in 1..Len(reqs) : ValidateTouch(i)

DaysSpec == DaysInit /\ [][DaysNext]_vars

\* The validate calls issued while the storage may fail.
FailInputs == {<<"K1", "p1", "A">>, <<"K1", "p1", "B">>, <<"KX", "p1", "A">>}

\* Requests are handled one after the other, and any storage call of a
\* validate handler may fail.
FailNext ==
    \/ Tick
    \/ Quiescent /\ \E v \in FailInputs : ValidateBegin(v[1], v[2], v[3])
    \/ Quiescent /\ \E v \in FailInputs : ValidateLookupFails(v[1], v[2], v[3])
    \/ Quiescent /\ RevokeBegin("L1", "r1")
    \/ \E i \in 1..Len(reqs) : ValidateStorageFails(i)
    \/ \E i \in 1..Len(reqs) : ValidateExpire(i)
    \/ \E i \in 1..Len(reqs) : ValidateFindExisting(i)
    \/ \E i \in 1..Len(reqs) : ValidateCreate(i)
    \/ \E i \in 1..Len(reqs) : ValidateUpdateCount(i)
    \/ \E i \in 1..Len(reqs) : ValidateTouch(i)
    \/ \E i \in 1..Len(reqs) : RevokeUpdateLicense(i)
    \/ \E i \in 1..Len(reqs) : RevokeUpdateActivations(i)

FailSpec == Init /\ [][FailNext]_vars

\* The store holds two licenses of the same plugin, each with any of the
\* expiry terms and the default quota.
TwoInit ==
    /\ now = 0
    /\ \E e1, e2 \in {ShortValidity, PerpetualExpiresAt} :
          licenses = ("L1" :> NewLicense("L1", "K1", "p1", e1, 1))
                  @@ ("L2" :> NewLicense("L2", "K2", "p1", e2, 1))
    /\ activations = <<>>
    /\ reqs = <<>>
    /\ revokeDone = {}
    /\ expireWrites = [l \in {"L1", "L2"} |-> 0]
    /\ scan = ScanIdle

\* Calls on the two licenses, from the same machine, handled concurrently.
TwoNext ==
    \/ Tick
    \/ /\ Len(reqs) < TwoRequests
       /\ \E k \in {"K1", "K2"} : ValidateBegin(k, "p1", "A")
    \/ /\ Len(reqs) < TwoRequests
       /\ \E l \in {"L1", "L2"} : RevokeBegin(l, "r1")
    \/ \E i \in 1..Len(reqs) : ValidateExpire(i)
    \/ \E i \in 1..Len(reqs) : ValidateFindExisting(i)
    \/ \E i \in 1..Len(reqs) : ValidateCreate(i)
    \/ \E i \in 1..Len(reqs) : ValidateUpdateCount(i)
    \/ \E i \in 1..Len(reqs) : ValidateTouch(i)
    \/ \E i \in 1..Len(reqs) : RevokeUpdateLicense(i)
    \/ \E i \in 1..Len(reqs) : RevokeUpdateActivations(i)

TwoSpec == TwoInit /\ [][TwoNext]_vars

\* Validate calls from two machines and revoke calls on the one stored
\* license, handled concurrently.
RaceNext ==
    \/ Tick
    \/ /\ Len(reqs) < RaceRequests
       /\ \E m \in Machines : ValidateBegin("K1", "p1", m)
    \/ Len(reqs) < RaceRequests /\ RevokeBegin("L1", "r1")
    \/ \E i \in 1..Len(reqs) : ValidateExpire(i)
    \/ \E i \in 1..Len(reqs) : ValidateFindExisting(i)
    \/ \E i \in 1..Len(reqs) : ValidateCreate(i)
    \/ \E i \in 1..Len(reqs) : ValidateUpdateCount(i)
    \/ \E i \in 1..Len(reqs) : ValidateTouch(i)
    \/ \E i \in 1..Len(reqs) : RevokeUpdateLicense(i)
    \/ \E i \in 1..Len(reqs) : RevokeUpdateActivations(i)

RaceSpec == Init /\ [][RaceNext]_vars

\* The clock from midnight to the reading after the scan's.
LifeTick ==
    /\ TimeOfDay(now) <= CronUnit
    /\ now' = now + 1
    /\ UNCHANGED <<licenses, activations, reqs, revokeDone, expireWrites, scan>>

\* The maxActivations values that generate requests carry.
QuotaInputs == {0, DefaultMaxActivations}

\* No request and no run of the scan is in flight.
Idle == Quiescent /\ scan.pc = 0

\* The whole life of the store as a sequence of calls: licenses are generated
\* -- with any quota the request carries, and with a key that is new or is
\* the key of the first license -- validated and revoked, and the scan runs
\* on its schedule; a call starts when the one before it is over.
LifeNext ==
    \/ Idle /\ LifeTick
    \/ Idle /\ GenYear
    \/ Quiescent /\ ScanStep
    \/ /\ Idle
       /\ Cardinality(DOMAIN licenses) < MaxGenerated
       /\ \E q \in QuotaInputs, k \in {GenerateLicenseKey, GenKeys[1]} :
             GenerateBegin("p1", "n1", "e1", "1-year", q, k)
    \/ \E i \in 1..Len(reqs) : GenerateCreate(i)
    \/ Idle /\ ValidateBegin("K1", "p1", "A")
    \/ Idle /\ RevokeBegin("L1", "r1")
    \/ \E i \in 1..Len(reqs) : ValidateExpire(i)
    \/ \E i \in 1..Len(reqs) : ValidateFindExisting(i)
    \/ \E i \in 1..Len(reqs) : ValidateCreate(i)
    \/ \E i \in 1..Len(reqs) : ValidateUpdateCount(i)
    \/ \E i \in 1..Len(reqs) : ValidateTouch(i)
    \/ \E i \in 1..Len(reqs) : RevokeUpdateLicense(i)
    \/ \E i \in 1..Len(reqs) : RevokeUpdateActivations(i)

LifeSpec == GenInit /\ [][LifeNext]_vars

\* The program in an environment that acts on it: the host's clock may be
\* set back, and a license may be suspended in the database.  Requests are
\* handled one after the other.
EnvNext ==
    \/ Tick
    \/ ClockBack
    \/ ExternalSuspend("L1")
    \/ Quiescent /\ \E m \in {"A", NoMachine} : ValidateBegin("K1", "p1", m)
    \/ Quiescent /\ RevokeBegin("L1", "r1")
    \/ \E i \in 1..Len(reqs) : ValidateExpire(i)
    \/ \E i \in 1..Len(reqs) : ValidateFindExisting(i)
    \/ \E i \in 1..Len(reqs) : ValidateCreate(i)
    \/ \E i \in 1..Len(reqs) : ValidateUpdateCount(i)
    \/ \E i \in 1..Len(reqs) : ValidateTouch(i)
    \/ \E i \in 1..Len(reqs) : RevokeUpdateLicense(i)
    \/ \E i \in 1..Len(reqs) : RevokeUpdateActivations(i)

EnvSpec == Init /\ [][EnvNext]_vars

\* The clock beside the scan, from midnight to the reading after the scan's.
StatusTick == scan.pc = 0 /\ LifeTick

\* Validate and revoke calls on the one stored license handled concurrently,
\* beside the scan on its schedule, and an administrator who may suspend the
\* license in the database.
StatusNext ==
    \/ StatusTick
    \/ ScanStep
    \/ ExternalSuspend("L1")
    \/ Len(reqs) < RaceRequests /\ ValidateBegin("K1", "p1", "A")
    \/ Len(reqs) < RaceRequests /\ RevokeBegin("L1", "r1")
    \/ \E i \in 1..Len(reqs) : ValidateExpire(i)
    \/ \E i \in 1..Len(reqs) : ValidateFindExisting(i)
    \/ \E i \in 1..Len(reqs) : ValidateCreate(i)
    \/ \E i \in 1..Len(reqs) : ValidateUpdateCount(i)
    \/ \E i \in 1..Len(reqs) : ValidateTouch(i)
    \/ \E i \in 1..Len(reqs) : RevokeUpdateLicense(i)
    \/ \E i \in 1..Len(reqs) : RevokeUpdateActivations(i)

StatusSpec == Init /\ [][StatusNext]_vars

\* The request bodies of the specification of generate's input checks:
\* <<pluginId, customerName, customerEmail, licenseType>>, complete and well
\* typed, with one field missing, and with a licenseType that is none of the
\* four.
FieldInputs ==
    {<<"p1", "n1", "e1", "1-year">>, <<"p1", "n1", "e1", "perpetual">>,
     <<Missing, "n1", "e1", "1-year">>, <<"p1", Missing, "e1", "1-year">>,
     <<"p1", "n1", Missing, "1-year">>, <<"p1", "n1", "e1", Missing>>,
     <<"p1", "n1", "e1", "weekly">>, <<"p1", "n1", "e1", "constructor">>}

\* The generate call of a request body g.
GenerateCall(g) ==
    GenerateBegin(g[1], g[2], g[3], g[4], DefaultMaxActivations,
                  GenerateLicenseKey)

\* Generate requests of every kind, handled one after the other.
FieldNext ==
    \/ /\ Quiescent
       /\ Cardinality(DOMAIN licenses) < MaxGenerated
       /\ \E g \in FieldInputs : GenerateCall(g)
    \/ \E i \in 1..Len(reqs) : GenerateCreate(i)

FieldSpec == GenInit /\ [][FieldNext]_vars

\* ------------------------------------------------------------ properties
ActiveCount(l) == Cardinality(ActiveIds(activations, l))

Min(a, b) == IF a <= b THEN a ELSE b

Done(i) == reqs[i].pc = "done"

\* Request i is a validate call that found license l.
ValidateOf(i, l) == reqs[i].kind = "validate" /\ reqs[i].licenseId = l

CapMessage == "Maximum number of activations reached"

\* C1: in every reachable state, under every interleaving of validate calls,
\* the number of active Activations of a license never exceeds its
\* maxActivations.
C1_ActivationCap ==
    \A l \in DOMAIN licenses : ActiveCount(l) <= licenses[l].maxActivations

\* C2: when N validate calls with pairwise distinct machineIds, and nothing
\* else, have run against an active unexpired license without prior
\* activations, exactly min(N, maxActivations) of them were answered valid
\* and every other one was answered "maximum activations reached".
C2_MinAdmitted ==
    \A l \in DOMAIN licenses :
        LET N == Len(reqs)
            valid == {i \in 1..N : reqs[i].response.valid}
        IN  (/\ N >= 1
             /\ \A i \in 1..N : /\ Done(i)
                                /\ ValidateOf(i, l)
                                /\ reqs[i].machineId # NoMachine
             /\ \A i, j \in 1..N : i # j => reqs[i].machineId # reqs[j].machineId
             /\ ~IsExpired(licenses[l], now))
            => /\ Cardinality(valid) = Min(N, licenses[l].maxActivations)
               /\ \A i \in (1..N) \ valid : reqs[i].response.message = CapMessage

\* C3: whenever every validate and revoke call issued so far has been
\* answered, each license's activationCount equals the number of its
\* Activations with status=active.
C3_CountMatchesActive ==
    Quiescent =>
        \A l \in DOMAIN licenses : licenses[l].activationCount = ActiveCount(l)

\* C4: in every reachable state there is at most one active Activation for
\* each (licenseId, machineId) pair.
C4_OneActivePerMachine ==
    \A l \in DOMAIN licenses, m \in Machines :
        Cardinality({a \in ActiveIds(activations, l) :
                        activations[a].machineId = m}) <= 1

\* C5: no state another request can observe has a license with
\* status=revoked that still owns an Activation with status=active.
C5_RevokeAtomic ==
    \A l \in DOMAIN licenses :
        licenses[l].status = "revoked" => ActiveCount(l) = 0

\* C6: a validate call that arrives for a license after a revoke call on it
\* has completed is answered invalid with reason "License is revoked".
C6_RejectedAfterRevoke ==
    \A i \in 1..Len(reqs) :
        (reqs[i].kind = "validate" /\ Done(i) /\ reqs[i].afterRevoke)
            => /\ ~reqs[i].response.valid
               /\ reqs[i].response.message = "License is revoked"

\* C7: revoked is terminal: no step changes a license's status from revoked
\* to any other value.
C7_RevokedTerminal ==
    [][\A l \in DOMAIN licenses :
          licenses[l].status = "revoked" => licenses'[l].status = "revoked"]_vars

\* C8: validate changes a license's status to expired at most once, and every
\* validate call that arrives after that write is answered invalid.
C8_ExpiresOnce ==
    /\ \A l \in DOMAIN licenses : expireWrites[l] <= 1
    /\ \A i \in 1..Len(reqs) :
          (reqs[i].kind = "validate" /\ Done(i) /\ reqs[i].afterExpire)
              => ~reqs[i].response.valid

\* The reasons validate may give for refusing a license whose stored status
\* is `status`.
RefusalMessages(status) ==
    {StatusMessage(status)} \cup
        (IF status = "expired" THEN {"License has expired"} ELSE {})

\* C9: validate applies the expiry transition only to a license whose status
\* is active: a validate call answered for a license whose stored status is
\* expired, revoked or suspended writes nothing and gives that status as its
\* reason, also when expiresAt is in the past.
C9_NonActiveUntouched ==
    [][\A i \in 1..Len(reqs') :
          LET r == reqs'[i]
              l == r.licenseId
          IN  (/\ r.kind = "validate"
               /\ r.pc = "done"
               /\ i <= Len(reqs) => ~Done(i)
               /\ l \in DOMAIN licenses
               /\ licenses[l].status # "active")
              => /\ licenses' = licenses
                 /\ activations' = activations
                 /\ ~r.response.valid
                 /\ r.response.message \in RefusalMessages(licenses[l].status)]_vars

\* The machine of request r held an active Activation when r read the license.
HeldActivation(r) ==
    \E p \in r.activations :
        p[2] = "active" /\ activations[p[1]].machineId = r.machineId

\* An Activation row without its lastSeenAt.
Identity(a) == <<a.licenseId, a.machineId, a.status, a.activatedAt>>

\* C10: with requests handled one after the other, a validate call with a
\* machineId that reads an active, unexpired license whose active Activations
\* number maxActivations is answered "maximum activations reached" and writes
\* nothing when its machine holds no active Activation, and is answered valid,
\* leaving activationCount and the set of Activations as they were, when its
\* machine holds one.
C10_FullLicense ==
    [][\A i \in 1..Len(reqs) :
          LET r == reqs[i]
          IN  (/\ r.kind = "validate"
               /\ ~Done(i)
               /\ reqs'[i].pc = "done"
               /\ r.pc # "expire"
               /\ ActiveInSnapshot(r) = r.license.maxActivations)
              => IF HeldActivation(r)
                   THEN /\ reqs'[i].response.valid
                        /\ licenses' = licenses
                        /\ Len(activations') = Len(activations)
                        /\ \A a \in ActivationIds :
                              Identity(activations'[a]) = Identity(activations[a])
                   ELSE /\ ~reqs'[i].response.valid
                        /\ reqs'[i].response.message = CapMessage
                        /\ licenses' = licenses
                        /\ activations' = activations]_vars

\* maxActivations = 1: A was answered valid, then B was refused, then A was
\* answered valid again, and activationCount is 1.
C10_Witness ==
    /\ Len(reqs) = 3
    /\ \A i \in 1..3 : Done(i) /\ ValidateOf(i, "L1")
    /\ reqs[1].machineId = "A" /\ reqs[1].response.valid
    /\ reqs[2].machineId = "B" /\ reqs[2].response.message = CapMessage
    /\ reqs[3].machineId = "A" /\ reqs[3].response.valid
    /\ licenses["L1"].maxActivations = 1
    /\ licenses["L1"].activationCount = 1
    /\ ActiveCount("L1") = 1

\* The request that arrives in this step (defined when one does).
Arrived == reqs'[Len(reqs')]

Arrives == Len(reqs') = Len(reqs) + 1

StoreUnchanged == licenses' = licenses /\ activations' = activations

NotFoundResponse == Response(200, FALSE, "License not found", 0)

\* C11: a validate call whose (licenseKey, pluginId) pair is that of no stored
\* license -- a stored key with another plugin id just as an unknown key -- is
\* answered "License not found" at once, with the same response in both
\* cases, and changes nothing in the store.
C11_LookupByPair ==
    [][(/\ Arrives
        /\ Arrived.kind = "validate"
        /\ Arrived.licenseKey # Missing /\ Arrived.pluginId # Missing
        /\ ~\E l \in DOMAIN licenses :
               /\ licenses[l].licenseKey = Arrived.licenseKey
               /\ licenses[l].pluginId = Arrived.pluginId)
       => /\ Arrived.pc = "done"
          /\ Arrived.response = NotFoundResponse
          /\ Arrived.licenseId = NoLicenseId
          /\ StoreUnchanged]_vars

\* The stored key K1 presented for plugin p2, and the unknown key KX, were
\* both answered "License not found".
C11_Witness ==
    \E i, j \in 1..Len(reqs) :
        /\ reqs[i].licenseKey = "K1" /\ reqs[i].pluginId = "p2"
        /\ \E l \in DOMAIN licenses : licenses[l].licenseKey = "K1"
        /\ reqs[j].licenseKey = "KX"
        /\ reqs[i].response = NotFoundResponse
        /\ reqs[j].response = reqs[i].response

\* Request i of the next state takes this step.
Acts(i) == i > Len(reqs) \/ reqs'[i] # reqs[i]

\* C12: a validate call without machineId on an active, unexpired license is
\* answered valid in its first step and leaves every Activation and every
\* field of the license (activationCount, activatedAt, activatedBy) as it was.
C12_StatusOnlyCheck ==
    [][\A i \in 1..Len(reqs') :
          LET r == reqs'[i]
              l == r.licenseId
          IN  (/\ Acts(i)
               /\ r.kind = "validate"
               /\ r.machineId = NoMachine
               /\ l \in DOMAIN licenses
               /\ licenses[l].status = "active"
               /\ ~IsExpired(licenses[l], now))
              => /\ i > Len(reqs)
                 /\ r.pc = "done"
                 /\ r.response.valid
                 /\ r.response.code = 200
                 /\ StoreUnchanged]_vars

\* A validate call without machineId was answered valid for a license that
\* has an Activation.
C12_Witness ==
    \E i \in 1..Len(reqs) :
        /\ ValidateOf(i, "L1") /\ Done(i)
        /\ reqs[i].machineId = NoMachine
        /\ reqs[i].response.valid
        /\ ActiveCount("L1") = 1
        /\ licenses["L1"].activatedBy = "A"

Statuses(acts) == [a \in 1..Len(acts) |-> acts[a].status]

\* C14: with requests handled one after the other, a revoke call on a license
\* that is already revoked does not fail: it leaves the status revoked and
\* every Activation status as it was, changes no field of the license but
\* metadata, and metadata holds the reason of this last call.
C14_RevokeTwice ==
    [][\A i \in 1..Len(reqs) :
          LET r == reqs[i]
              l == r.licenseId
          IN  (/\ r.kind = "revoke"
               /\ ~Done(i)
               /\ reqs'[i] # r
               /\ r.license.status = "revoked")
              => /\ licenses'[l].status = "revoked"
                 /\ [licenses'[l] EXCEPT !.metadata = licenses[l].metadata]
                        = licenses[l]
                 /\ licenses'[l].metadata.revocationReason = r.reason
                 /\ Statuses(activations') = Statuses(activations)
                 /\ reqs'[i].pc = "done" => reqs'[i].response.code = 200]_vars

\* Two revoke calls with different reasons have completed on a license with
\* an Activation: the license is revoked, the Activation is revoked and the
\* metadata holds the second reason.
C14_Witness ==
    /\ Len(reqs) = 3
    /\ ValidateOf(1, "L1") /\ reqs[1].response.valid
    /\ reqs[2].kind = "revoke" /\ reqs[2].reason = "r1" /\ Done(2)
    /\ reqs[3].kind = "revoke" /\ reqs[3].reason = "r2" /\ Done(3)
    /\ reqs[3].response.code = 200
    /\ licenses["L1"].status = "revoked"
    /\ licenses["L1"].metadata.revocationReason = "r2"
    /\ Len(activations) = 1 /\ activations[1].status = "revoked"

\* C20: a validate call without licenseKey or without pluginId is answered
\* 400 in its first step, before any storage access: it holds no license, the
\* response says the fields are required, and the store is unchanged.
C20_InputCheckedFirst ==
    [][(/\ Arrives
        /\ Arrived.kind = "validate"
        /\ (Arrived.licenseKey = Missing \/ Arrived.pluginId = Missing))
       => /\ Arrived.pc = "done"
          /\ Arrived.response.code = 400
          /\ ~Arrived.response.valid
          /\ Arrived.response.message = "License key and plugin ID are required"
          /\ Arrived.licenseId = NoLicenseId
          /\ Arrived.license = NullLicense
          /\ StoreUnchanged]_vars

\* A call without licenseKey and a call without pluginId (for the stored key
\* K1) were both answered 400.
C20_Witness ==
    \E i, j \in 1..Len(reqs) :
        /\ reqs[i].kind = "validate" /\ reqs[i].licenseKey = Missing
        /\ reqs[j].kind = "validate" /\ reqs[j].pluginId = Missing
        /\ reqs[j].licenseKey = "K1"
        /\ reqs[i].response.code = 400 /\ reqs[j].response.code = 400

\* The threshold of the iteration that a step of the scan runs.
StepDays == Thresholds[scan.pc + 1]

\* The step is an iteration of the scan.
ScanActs == scan' # scan

\* C15: a step of the scan changes no field of any License or Activation,
\* whatever the store holds and wherever the step falls between the storage
\* steps of validate and revoke calls.
C15_ScanObservational ==
    [][ScanActs => StoreUnchanged]_vars

\* A run of the scan is in flight and has logged an event, while a revoke
\* call has written the license and not yet its Activation.
C15_Witness ==
    /\ scan.pc > 0 /\ scan.log # {}
    /\ \E i \in 1..Len(reqs) : reqs[i].pc = "updateActivations"
    /\ licenses["L1"].status = "revoked"
    /\ ActiveCount("L1") = 1

\* C16: when the scan runs at `now`, an active license with
\* expiresAt = now + 7 days 3 hours is logged by the iteration of threshold 7
\* and by the iteration of no other threshold.
C16_SevenDayBucket ==
    [][ScanActs =>
         \A l \in DOMAIN licenses :
            (/\ licenses[l].status = "active"
             /\ licenses[l].expiresAt = now + 7 * DayUnits + Hours(3))
            => (<<l, StepDays>> \in scan'.log <=> StepDays = 7)]_vars

\* A run at 09:00 is over; the license, still active, expires 7 days 3 hours
\* later and is in the log with threshold 7 only.
C16_Witness ==
    /\ scan.pc = 0
    /\ TimeOfDay(now) = CronUnit
    /\ licenses["L1"].status = "active"
    /\ licenses["L1"].expiresAt = now + 7 * DayUnits + Hours(3)
    /\ scan.log = {<<"L1", 7>>}

\* The calendar day of a clock reading.
DayOf(t) == t \div DayUnits

\* C17: the iteration of threshold d logs an event for a license if and only
\* if the license has status active and its expiresAt lies in the calendar
\* day d days after the day of `now`, first and last instant included; the
\* thresholds are 90, 60, 45, 30, 15, 7, 3 and 1.
C17_ThresholdBuckets ==
    [][ScanActs =>
         /\ StepDays \in {90, 60, 45, 30, 15, 7, 3, 1}
         /\ \A l \in DOMAIN licenses :
               <<l, StepDays>> \in scan'.log
                  <=> /\ licenses[l].status = "active"
                      /\ DayOf(licenses[l].expiresAt) = DayOf(now) + StepDays]_vars

\* A run is over that logged the license, which expires at the last reading
\* of the next day, with threshold 1.
C17_Witness ==
    /\ scan.pc = 0
    /\ <<"L1", 1>> \in scan.log
    /\ TimeOfDay(licenses["L1"].expiresAt) = DayUnits - 1
    /\ DayOf(licenses["L1"].expiresAt) = DayOf(now) + 1

\* C18: a stored license of type 1-year, 3-year or 5-year has an expiresAt
\* exactly 365, 1095 or 1825 days after its issuedAt.
C18_ExactValidity ==
    \A l \in DOMAIN licenses :
        licenses[l].licenseType \in DOMAIN ValidityDays
            => licenses[l].expiresAt =
                  licenses[l].issuedAt
                      + ValidityDays[licenses[l].licenseType] * DayUnits

ExpiredMessages == {"License has expired", "License is expired"}

\* C19: a license generated as perpetual carries the sentinel expiresAt, and
\* as long as the clock has not passed the sentinel no validate call takes
\* the expiry step for it: its status is not expired, no expiry was written
\* and no validate call on it is at the expiry write or was refused as
\* expired.
C19_PerpetualNeverExpires ==
    \A l \in DOMAIN licenses :
        licenses[l].licenseType = "perpetual"
            => /\ licenses[l].expiresAt = PerpetualExpiresAt
               /\ now <= PerpetualExpiresAt
                    => /\ licenses[l].status # "expired"
                       /\ expireWrites[l] = 0
                       /\ \A i \in 1..Len(reqs) :
                             ValidateOf(i, l)
                                => /\ reqs[i].pc # "expire"
                                   /\ reqs[i].response.message
                                         \notin ExpiredMessages

\* A perpetual license was activated more than a year after it was issued,
\* when a 1-year license of the same day has run out, and is still active.
C19_Witness ==
    \E l \in DOMAIN licenses :
        /\ licenses[l].licenseType = "perpetual"
        /\ licenses[l].activatedAt > licenses[l].issuedAt + YearUnits
        /\ licenses[l].status = "active"
        /\ \E i \in 1..Len(reqs) : ValidateOf(i, l) /\ reqs[i].response.valid

\* The flag of the verdict's warningThresholds for threshold t.
Flag(w, t) ==
    CASE t = 90 -> w.show90DayWarning
      [] t = 60 -> w.show60DayWarning
      [] t = 45 -> w.show45DayWarning
      [] t = 30 -> w.show30DayWarning
      [] t = 15 -> w.show15DayWarning
      [] t = 7  -> w.showDailyWarning

\* days is the whole number of days in the duration d, cut off downwards.
WholeDays(days, d) == days * DayUnits <= d /\ d < (days + 1) * DayUnits

\* Request i gets its valid verdict in this step.
GetsValid(i) ==
    /\ reqs'[i].pc = "done" /\ reqs'[i].response.valid
    /\ reqs'[i].kind = "validate"
    /\ i <= Len(reqs) => ~Done(i)

\* C21: the daysRemaining that validate computes when it has read the license
\* is the whole number of days from now to expiresAt, cut off downwards, and
\* is not negative; every valid verdict carries that number, and for each
\* threshold t of 90, 60, 45, 30, 15, 7 its warning flag is true if and only
\* if daysRemaining <= t, so that a true flag makes every flag of a larger
\* threshold true.
C21_DaysRemaining ==
    [][\A i \in 1..Len(reqs') :
          LET r  == reqs'[i]
              rs == r.response
          IN  /\ (i > Len(reqs) /\ r.kind = "validate"
                    /\ (r.pc = "findExisting" \/ rs.valid))
                 => LET days == IF rs.valid THEN rs.daysRemaining
                                            ELSE r.daysRemaining
                    IN  /\ days >= 0
                        /\ WholeDays(days,
                                     licenses[r.licenseId].expiresAt - now)
              /\ GetsValid(i)
                 => /\ i <= Len(reqs) => rs.daysRemaining = reqs[i].daysRemaining
                    /\ rs.daysRemaining >= 0
                    /\ \A t \in {90, 60, 45, 30, 15, 7} :
                          Flag(rs.warningThresholds, t) <=> rs.daysRemaining <= t
                    /\ \A t, u \in {90, 60, 45, 30, 15, 7} :
                          (t < u /\ Flag(rs.warningThresholds, t))
                             => Flag(rs.warningThresholds, u)]_vars

\* One valid verdict said 8 days without the daily warning, a later one,
\* after an activation, 7 days with it.
C21_Witness ==
    \E i, j \in 1..Len(reqs) :
        /\ i < j
        /\ reqs[i].response.valid /\ reqs[j].response.valid
        /\ reqs[i].response.daysRemaining = 8
        /\ ~reqs[i].response.warningThresholds.showDailyWarning
        /\ reqs[i].response.warningThresholds.show15DayWarning
        /\ reqs[j].machineId = "A"
        /\ reqs[j].response.daysRemaining = 7
        /\ reqs[j].response.warningThresholds.showDailyWarning

\* Requests i and j are the same validate call.
SameCall(i, j) ==
    /\ reqs[i].kind = "validate" /\ reqs[j].kind = "validate"
    /\ reqs[i].licenseKey = reqs[j].licenseKey
    /\ reqs[i].pluginId = reqs[j].pluginId
    /\ reqs[i].machineId = reqs[j].machineId

\* The active Activations of license l held by machine m.
ActiveOf(l, m) ==
    {a \in ActiveIds(activations, l) : activations[a].machineId = m}

\* C22: when a validate call with a machineId has failed with a storage
\* failure and the caller's retry of the same call has been answered valid,
\* and nothing else was called, the state is that after one successful
\* validate: exactly one active Activation for the machine, and
\* activationCount equal to the number of active Activations.
C22_RetrySafe ==
    (/\ Len(reqs) = 2
     /\ SameCall(1, 2)
     /\ reqs[1].machineId # NoMachine
     /\ Done(1) /\ reqs[1].storageFailed
     /\ Done(2) /\ reqs[2].response.valid)
    => /\ Cardinality(ActiveOf("L1", reqs[1].machineId)) = 1
       /\ licenses["L1"].activationCount = ActiveCount("L1")

\* The reasons of the negative verdicts of validate.
NegativeReasons ==
    {"License not found", "License has expired", "License is expired",
     "License is revoked", "License is suspended", CapMessage}

\* Request i is answered in this step.
Answered(i) == reqs'[i].pc = "done" /\ (i <= Len(reqs) => ~Done(i))

\* C23: a validate call that is refused on its decision path -- not found,
\* expired, status not active, cap reached -- gets a verdict with status 200,
\* valid = false and its reason; the 500 answer is given when and only when
\* a storage call of the handler failed, and differs from every verdict in
\* its status code and in its message.
C23_NegativesAreVerdicts ==
    [][\A i \in 1..Len(reqs') :
          LET r  == reqs'[i]
              rs == r.response
          IN  (Answered(i) /\ r.kind = "validate")
              => /\ r.storageFailed <=> rs.code = 500
                 /\ r.storageFailed <=> rs.message = "Internal server error"
                 /\ r.storageFailed => StoreUnchanged
                 /\ (~r.storageFailed /\ ~rs.valid /\ ~BadInput(r.licenseKey,
                                                                r.pluginId))
                    => /\ rs.code = 200
                       /\ rs.message \in NegativeReasons]_vars

\* A call was refused with "Maximum number of activations reached", one with
\* "License not found", and one ended in an internal failure.
C23_Witness ==
    \E i, j, k \in 1..Len(reqs) :
        /\ reqs[i].response = Response(200, FALSE, CapMessage, 0)
        /\ reqs[j].response = NotFoundResponse
        /\ reqs[k].storageFailed /\ reqs[k].response.code = 500

\* The Activations of license l, in the order of their creation.
OwnedBy(acts, l) == SelectSeq(acts, LAMBDA a : a.licenseId = l)

\* The calls issued so far on license l.
CallsOn(l) == {i \in 1..Len(reqs) : reqs[i].licenseId = l}

\* License l has seen one call only, which has been answered, and is in the
\* state in which that call leaves a license that no other call touches.
AloneOutcome(l) ==
    \A i \in CallsOn(l) :
        (CallsOn(l) = {i} /\ Done(i))
        => LET rs == reqs[i].response
           IN  /\ (reqs[i].kind = "validate" /\ rs.valid)
                  => /\ licenses[l].status = "active"
                     /\ licenses[l].activationCount = 1
                     /\ licenses[l].activatedBy = reqs[i].machineId
                     /\ Len(OwnedBy(activations, l)) = 1
                     /\ ActiveCount(l) = 1
               /\ (reqs[i].kind = "validate" /\ ~rs.valid)
                  => /\ rs.message = "License has expired"
                     /\ licenses[l].status = "expired"
                     /\ licenses[l].activationCount = 0
                     /\ OwnedBy(activations, l) = <<>>
               /\ reqs[i].kind = "revoke"
                  => /\ rs.code = 200
                     /\ licenses[l].status = "revoked"
                     /\ licenses[l].activationCount = 0
                     /\ OwnedBy(activations, l) = <<>>

\* C24: a step of a validate or revoke call on a license changes no field of
\* any other license and no Activation of another license, and creates no
\* Activation for another license; and a license that has seen one call is,
\* whatever was called on the other license in between, in the state and has
\* the verdict that this call alone produces.
C24_LicensesIndependent ==
    [][/\ \A i \in 1..Len(reqs') :
             Acts(i) =>
               \A l \in DOMAIN licenses :
                  l # reqs'[i].licenseId
                    => /\ licenses'[l] = licenses[l]
                       /\ OwnedBy(activations', l) = OwnedBy(activations, l)
       /\ \A l \in DOMAIN licenses' : AloneOutcome(l)']_vars

\* A revoke call on L1 and a validate call on L2 are both between two of
\* their writes: L1 is revoked, L2 has its new Activation and not yet its
\* count.
C24_Witness ==
    \E i, j \in 1..Len(reqs) :
        /\ reqs[i].kind = "revoke" /\ reqs[i].licenseId = "L1"
        /\ reqs[i].pc = "updateActivations"
        /\ licenses["L1"].status = "revoked"
        /\ ValidateOf(j, "L2") /\ reqs[j].pc = "updateCount"
        /\ ActiveCount("L2") = 1
        /\ licenses["L2"].activationCount = 0

\* C25: in every reachable state, under every interleaving of concurrent
\* validate and revoke calls, a license with maxActivations >= 1 has
\* 0 <= activationCount <= maxActivations.
C25_CountWithinQuota ==
    \A l \in DOMAIN licenses :
        licenses[l].maxActivations >= 1
            => /\ 0 <= licenses[l].activationCount
               /\ licenses[l].activationCount <= licenses[l].maxActivations

\* Two concurrent validate calls have both activated a license with
\* maxActivations = 1 and both written the count: it is 1, with two active
\* Activations.
C25_Witness ==
    /\ licenses["L1"].maxActivations = 1
    /\ licenses["L1"].activationCount = 1
    /\ ActiveCount("L1") = 2
    /\ \E i, j \in 1..Len(reqs) :
          /\ i # j
          /\ Done(i) /\ reqs[i].response.valid /\ reqs[i].machineId = "A"
          /\ Done(j) /\ reqs[j].response.valid /\ reqs[j].machineId = "B"

\* C26: every stored license has maxActivations >= 1, whatever value the
\* generate request carried.
C26_QuotaAtLeastOne ==
    \A l \in DOMAIN licenses : licenses[l].maxActivations >= 1

\* C29: the license keys in the store are pairwise different, and every
\* generate request with valid input has ended with a new stored license --
\* a colliding key having been replaced by a fresh one -- and not with a
\* failure.
C29_CollisionRetried ==
    /\ \A l1, l2 \in DOMAIN licenses :
          licenses[l1].licenseKey = licenses[l2].licenseKey => l1 = l2
    /\ \A i \in 1..Len(reqs) :
          (reqs[i].kind = "generate" /\ Done(i) /\ reqs[i].response.code # 400)
             => /\ reqs[i].response.code = 200
                /\ reqs[i].licenseId \in DOMAIN licenses

\* The identity of an Activation row.
Owner(a) == <<a.licenseId, a.machineId, a.activatedAt>>

\* C30: no step of generate, validate, revoke or the scan removes a License
\* or an Activation: every license id and every Activation of the state
\* before the step is in the state after it, and revoke changes the status
\* of Activations and nothing else of them.
C30_NothingDeleted ==
    [][/\ DOMAIN licenses \subseteq DOMAIN licenses'
       /\ \A l \in DOMAIN licenses : licenses'[l].id = licenses[l].id
       /\ Len(activations') >= Len(activations)
       /\ \A a \in ActivationIds : Owner(activations'[a]) = Owner(activations[a])
       /\ (\E i \in 1..Len(reqs) : reqs[i].kind = "revoke" /\ reqs'[i] # reqs[i])
             => Len(activations') = Len(activations)]_vars

\* A generated license was activated and then revoked, and the scan is
\* running after that: the license and its Activation are in the store,
\* both revoked.
C30_Witness ==
    /\ scan.pc > 0
    /\ "L1" \in DOMAIN licenses
    /\ licenses["L1"].status = "revoked"
    /\ Len(activations) = 1
    /\ activations[1].licenseId = "L1" /\ activations[1].status = "revoked"
    /\ "L1" \in revokeDone

\* C27: a validate call that finds a license whose stored status is expired
\* while its expiresAt is not before now is answered invalid, with the
\* status as its reason, in its first step; it creates no Activation and the
\* status stays expired.
C27_ExpiredIsAuthoritative ==
    [][(/\ Arrives
        /\ Arrived.kind = "validate"
        /\ Arrived.licenseId \in DOMAIN licenses
        /\ licenses[Arrived.licenseId].status = "expired"
        /\ ~IsExpired(licenses[Arrived.licenseId], now))
       => /\ Arrived.pc = "done"
          /\ ~Arrived.response.valid
          /\ Arrived.response.message = "License is expired"
          /\ StoreUnchanged
          /\ licenses'[Arrived.licenseId].status = "expired"]_vars

\* The license was marked expired, the clock was set back to its expiresAt
\* or before, and a validate call with a machine was then refused: the
\* license is still expired and has no Activation.
C27_Witness ==
    \E i \in 1..Len(reqs) :
        /\ ValidateOf(i, "L1") /\ reqs[i].machineId = "A"
        /\ reqs[i].afterExpire
        /\ reqs[i].response.message = "License is expired"
        /\ licenses["L1"].status = "expired"
        /\ licenses["L1"].expiresAt >= now
        /\ activations = <<>>

\* C28: no step of a handler or of the scan sets a license's status to
\* suspended, and a validate call answered for a license whose stored status
\* is suspended is refused with the reason "License is suspended".
C28_SuspendedOnlyExternally ==
    [][/\ \A l \in DOMAIN licenses :
             (licenses'[l].status = "suspended" /\ licenses[l].status # "suspended")
                => reqs' = reqs /\ scan' = scan
       /\ \A i \in 1..Len(reqs') :
             (/\ Answered(i)
              /\ reqs'[i].kind = "validate"
              /\ reqs'[i].licenseId \in DOMAIN licenses
              /\ licenses[reqs'[i].licenseId].status = "suspended")
             => /\ ~reqs'[i].response.valid
                /\ reqs'[i].response.message = "License is suspended"]_vars

\* The keys the metadata of a license holds: a key of the model's record is
\* present when its value is not the one that stands for "not set".
MetadataKeys(md) ==
    {k \in DOMAIN md : IF k = "revokedAt" THEN md[k] # NullTime
                                          ELSE md[k] # NoReason}

\* The keys under which a revoke is to stamp the reason, the time and the
\* actor.
RevokeStampKeys == {"revocationReason", "revokedAt", "revokedBy"}

\* C31: with requests handled one after the other, when a revoke call is
\* answered with success the metadata of its license holds the reason given,
\* the time of the revoke and the actor who revoked, and every key the
\* metadata held when the call began.
C31_RevokeStamps ==
    [][\A i \in 1..Len(reqs) :
          (/\ reqs[i].kind = "revoke" /\ Answered(i)
           /\ reqs'[i].response.code = 200)
          => LET md == licenses'[reqs[i].licenseId].metadata
             IN  /\ md.revocationReason = reqs[i].reason
                 /\ md.revokedAt # NullTime
                 /\ MetadataKeys(reqs[i].license.metadata) \subseteq MetadataKeys(md)
                 /\ RevokeStampKeys \subseteq MetadataKeys(md)]_vars

\* Machine m holds no active Activation of license l, and the active
\* Activations of l are fewer than its maxActivations.
HasFreeSlot(l, m) ==
    /\ ActiveOf(l, m) = {}
    /\ ActiveCount(l) < licenses[l].maxActivations

\* C32: with requests handled one after the other, a validate call with a
\* machineId on an active, unexpired license on which the machine holds no
\* active Activation and whose active Activations are fewer than
\* maxActivations goes on to admit the machine; its create step adds exactly
\* one Activation, active, for (license, machineId), and leaves the license
\* and every other Activation as they were; its last step adds 1 to
\* activationCount, sets activatedBy to the machineId and activatedAt to now,
\* changes nothing else, and answers valid with the new activationCount.
C32_AdmitsNewMachine ==
    [][\A i \in 1..Len(reqs') :
          LET r == reqs'[i]
              l == r.licenseId
              m == r.machineId
          IN  /\ (/\ i > Len(reqs) /\ r.kind = "validate" /\ m # NoMachine
                  /\ l \in DOMAIN licenses
                  /\ licenses[l].status = "active"
                  /\ ~IsExpired(licenses[l], now)
                  /\ HasFreeSlot(l, m))
                 => r.pc = "findExisting" /\ StoreUnchanged
              /\ (/\ i <= Len(reqs) /\ reqs[i].pc = "findExisting" /\ Acts(i)
                  /\ HasFreeSlot(l, m))
                 => r.pc = "create" /\ StoreUnchanged
              /\ (i <= Len(reqs) /\ reqs[i].pc = "create" /\ Acts(i))
                 => /\ r.pc = "updateCount"
                    /\ licenses' = licenses
                    /\ Len(activations') = Len(activations) + 1
                    /\ SubSeq(activations', 1, Len(activations)) = activations
                    /\ LET a == activations'[Len(activations')]
                       IN  /\ a.licenseId = l /\ a.machineId = m
                           /\ a.status = "active"
              /\ (i <= Len(reqs) /\ reqs[i].pc = "updateCount" /\ Acts(i))
                 => /\ r.pc = "done" /\ r.response.valid
                    /\ activations' = activations
                    /\ licenses' = [licenses EXCEPT
                          ![l].activationCount = licenses[l].activationCount + 1,
                          ![l].activatedAt = now,
                          ![l].activatedBy = m]
                    /\ r.response.activationCount
                          = licenses[l].activationCount + 1]_vars

\* Machine A and then machine B were admitted on a license with room for
\* two: two active Activations, activationCount 2, and the license names B,
\* at the time of B's call, as its last activation.
C32_Witness ==
    /\ Len(reqs) >= 2
    /\ Done(1) /\ ValidateOf(1, "L1") /\ reqs[1].machineId = "A"
    /\ Done(2) /\ ValidateOf(2, "L1") /\ reqs[2].machineId = "B"
    /\ reqs[1].response.valid /\ reqs[1].response.activationCount = 1
    /\ reqs[2].response.valid /\ reqs[2].response.activationCount = 2
    /\ ActiveOf("L1", "A") # {} /\ ActiveOf("L1", "B") # {}
    /\ Len(activations) = 2
    /\ licenses["L1"].activationCount = 2
    /\ licenses["L1"].activatedBy = "B"
    /\ licenses["L1"].activatedAt > 0

Refused(i) ==
    /\ Answered(i) /\ reqs'[i].kind = "validate"
    /\ reqs'[i].response.code = 200 /\ ~reqs'[i].response.valid

\* C34: a validate call that ends with an invalid verdict -- not found,
\* expired, status not active, cap reached -- writes nothing on its way
\* there, and in the step that answers it no Activation is created or
\* changed and no field of any license changes but, in the expired case, the
\* status of its license, which becomes expired.
C34_InvalidWritesNothing ==
    [][\A i \in 1..Len(reqs') :
          LET r == reqs'[i]
          IN  /\ (i > Len(reqs) /\ r.kind = "validate"
                     /\ r.pc \in {"expire", "findExisting"})
                 => StoreUnchanged
              /\ Refused(i)
                 => /\ r.response.message \in NegativeReasons
                    /\ activations' = activations
                    /\ IF r.response.message = "License has expired"
                         THEN licenses' = [licenses EXCEPT
                                             ![r.licenseId].status = "expired"]
                         ELSE licenses' = licenses]_vars

\* Machine A was admitted, machine B was refused for the cap and refused
\* again for expiry once the license had run out: there is still the one
\* Activation, as A's call left it, and the license still counts one
\* activation, by A; only its status has changed.
C34_Witness ==
    /\ Len(reqs) = 3 /\ \A i \in 1..3 : Done(i) /\ ValidateOf(i, "L1")
    /\ reqs[1].machineId = "A" /\ reqs[1].response.valid
    /\ reqs[2].machineId = "B" /\ reqs[2].response.message = CapMessage
    /\ reqs[3].machineId = "B"
    /\ reqs[3].response.message = "License has expired"
    /\ licenses["L1"].status = "expired"
    /\ licenses["L1"].activationCount = 1
    /\ licenses["L1"].activatedBy = "A"
    /\ licenses["L1"].activatedAt = activations[1].activatedAt
    /\ Len(activations) = 1
    /\ activations[1].status = "active" /\ activations[1].machineId = "A"
    /\ activations[1].lastSeenAt = activations[1].activatedAt

C36_RevokeLeavesNoActive ==
    \A i \in 1..Len(reqs) :
        (/\ Quiescent
         /\ reqs[i].kind = "revoke" /\ reqs[i].response.code = 200
         /\ \A j \in 1..Len(reqs) :
               reqs[j].kind = "validate" => reqs[j].machineId # NoMachine)
        => ActiveCount(reqs[i].licenseId) = 0

\* C37: under every interleaving of validate calls, no step lowers the
\* activationCount of a license, and whenever a step leaves every call
\* answered the activationCount of a license is the number of Activations
\* created for it (it starts at 0 with no Activation).
C37_NoLostIncrement ==
    [][\A l \in DOMAIN licenses :
          /\ licenses'[l].activationCount >= licenses[l].activationCount
          /\ Quiescent'
             => licenses'[l].activationCount = Len(OwnedBy(activations', l))]_vars

\* The request body g lacks a required field or names a licenseType that is
\* none of 1-year, 3-year, 5-year, perpetual.
BadFields(g) ==
    \/ \E k \in 1..4 : g[k] = Missing
    \/ g[4] \notin {"1-year", "3-year", "5-year", "perpetual"}

\* C38: a generate request that lacks pluginId, customerName, customerEmail
\* or licenseType, or whose licenseType is none of the four, is answered with
\* an error -- at once with status 400, or with status 500 by the insert that
\* the database refuses -- and no step of it changes the store: no license
\* is created.
C38_BadGenerateRejected ==
    [][/\ \A g \in FieldInputs :
             (BadFields(g) /\ GenerateCall(g))
             => /\ StoreUnchanged
                /\ \/ Arrived.pc = "done" /\ Arrived.response.code = 400
                   \/ /\ Arrived.pc = "insert"
                      /\ Arrived.license.licenseType \notin LicenseTypes
       /\ \A i \in 1..Len(reqs) :
             (/\ reqs[i].pc = "insert" /\ Acts(i)
              /\ reqs[i].license.licenseType \notin LicenseTypes)
             => /\ reqs'[i].pc = "done"
                /\ reqs'[i].response.code = 500
                /\ StoreUnchanged]_vars

\* A license was generated, and two requests after it were rejected, one at
\* the input checks and one by the insert: the store holds the one license.
C38_Witness ==
    /\ Len(reqs) = 3 /\ \A i \in 1..3 : Done(i) /\ reqs[i].kind = "generate"
    /\ reqs[1].response.code = 200
    /\ reqs[2].response.code = 400
    /\ reqs[3].response.code = 500
    /\ DOMAIN licenses = {"L1"}
    /\ licenses["L1"].licenseType \in LicenseTypes

====
